---- MODULE Spec2Model ----
(***************************************************************************)
(* Model of the component Manager of package component (fizzle):           *)
(* the storage map, the recursive component loader and the renderable      *)
(* instance cloner.                                                        *)
(*                                                                         *)
(* Paths are sequences of path segments; the directory part of a path      *)
(* (what filepath.Split returns first, with its trailing separator) is the *)
(* sequence without its last segment and the base file name is the last    *)
(* segment.  String concatenation dir + file is sequence concatenation.    *)
(***************************************************************************)
EXTENDS Integers, Sequences, FiniteSets, TLC

(***************************************************************************)
(* Bounds of the model.                                                    *)
(***************************************************************************)
\* number of top-level operations issued on the Manager
MaxCalls == 3
\* number of top-level operations in the runs that build and clone trees
MaxTreeCalls == 5
\* number of top-level operations in the runs checked for termination
MaxLoadCalls == 2
\* depth at which the Go call stack of the loader is taken to overflow
MaxDepth == 4
\* depth at which the recursion of GetRenderableInstance is taken to overflow
MaxCloneDepth == 4

(***************************************************************************)
(* Values.                                                                 *)
(***************************************************************************)
\* the nil *Component
NoComp == 0
\* the nil error
Nil == <<>>
\* the empty string, as a path
Empty == <<>>

Vec(x, y, z) == <<x, y, z>>

\* filepath.Split: directory part (with trailing separator) and file part
SplitDir(p) == IF p = <<>> THEN <<>> ELSE SubSeq(p, 1, Len(p) - 1)
SplitFile(p) == IF p = <<>> THEN "" ELSE p[Len(p)]

\* a mesh entry of a component file
MeshEntry(name, bin, texs, diffuse, normals, specular) ==
    [Name |-> name, BinFile |-> bin, Textures |-> texs,
     DiffuseTexture |-> diffuse, NormalsTexture |-> normals,
     SpecularTexture |-> specular]

\* a child reference of a component file
ChildRef(file, loc) == [File |-> file, Location |-> loc]

\* the JSON text of a component
Json(name, offset, meshes, refs) ==
    [kind |-> "json", Name |-> name, Offset |-> offset, Meshes |-> meshes,
     ChildReferences |-> refs]

\* bytes that are no JSON document
Garbage == [kind |-> "garbage"]
\* a gombz mesh binary, well formed or not
Bin(valid) == [kind |-> "bin", valid |-> valid]
\* an image file
Image == [kind |-> "image"]

(***************************************************************************)
(* The file system the loader runs against.                                *)
(***************************************************************************)
TopMesh ==
    MeshEntry("top", <<"top.bin">>, << <<"wood.png">>, <<"gone.png">> >>,
              <<"wood.png">>, <<"nrm.png">>, Empty)
PlainMesh == MeshEntry("plain", Empty, <<>>, Empty, Empty, <<"spec.png">>)
CorruptMesh == MeshEntry("lid", <<"corrupt.bin">>, <<>>, <<"wood.png">>, Empty, Empty)

FileSystem ==
    [p \in { <<"a.json">>, <<"b.json">>, <<"table.json">>, <<"parts", "leg.json">>,
             <<"shelf.json">>, <<"crate.json">>, <<"broken.json">>,
             <<"top.bin">>, <<"corrupt.bin">>, <<"wood.png">>, <<"parts", "spec.png">> } |->
       CASE p = <<"a.json">> ->
              Json("A", Vec(0, 0, 0), <<>>,
                   << ChildRef(<<"b.json">>, Vec(1, 0, 0)),
                      ChildRef(<<"parts", "leg.json">>, Vec(0, 0, 3)) >>)
         [] p = <<"b.json">> ->
              Json("B", Vec(7, 7, 7), <<>>,
                   << ChildRef(<<"a.json">>, Vec(0, 2, 0)),
                      ChildRef(<<"parts", "leg.json">>, Vec(0, 4, 0)) >>)
         [] p = <<"table.json">> ->
              Json("Table", Vec(0, 0, 0), << TopMesh >>,
                   << ChildRef(<<"parts", "leg.json">>, Vec(1, 0, 0)) >>)
         [] p = <<"parts", "leg.json">> ->
              Json("Leg", Vec(5, 5, 5), << PlainMesh >>, <<>>)
         [] p = <<"shelf.json">> ->
              Json("Shelf", Vec(0, 1, 0), << PlainMesh, TopMesh >>,
                   << ChildRef(<<"missing.json">>, Vec(9, 9, 9)),
                      ChildRef(<<"broken.json">>, Vec(8, 8, 8)),
                      ChildRef(<<"crate.json">>, Vec(6, 6, 6)),
                      ChildRef(<<"shelf.json">>, Vec(0, 0, 1)),
                      ChildRef(<<"parts", "leg.json">>, Vec(2, 0, 0)) >>)
         [] p = <<"crate.json">> ->
              Json("Crate", Vec(0, 0, 0), << TopMesh, CorruptMesh >>, <<>>)
         [] p = <<"broken.json">> -> Garbage
         [] p = <<"top.bin">> -> Bin(TRUE)
         [] p = <<"corrupt.bin">> -> Bin(FALSE)
         [] p = <<"wood.png">> -> Image
         [] p = <<"parts", "spec.png">> -> Image]

\* ioutil.ReadFile: the bytes of the file, or an error
ReadFileErrorIgnored(path) ==
    [bytes |-> IF path \in DOMAIN FileSystem THEN FileSystem[path] ELSE Garbage,
     err |-> Nil]
ReadFile(path) ==
    IF path \in DOMAIN FileSystem
    THEN [bytes |-> FileSystem[path], err |-> Nil]
    ELSE [bytes |-> Garbage, err |-> <<"open", path>>]

\* json.Unmarshal into a new Component: nil error exactly for a JSON document
Unmarshal(bytes) == IF bytes.kind = "json" THEN Nil ELSE <<"invalid character">>

\* gombz.DecodeMesh: nil error exactly for a well formed mesh binary
DecodeMesh(bytes) ==
    IF bytes.kind = "bin" /\ bytes.valid THEN Nil ELSE <<"gombz decode">>

(***************************************************************************)
(* State of the program.                                                   *)
(***************************************************************************)
VARIABLES
    storage,    \* Manager.storage: storage name -> *Component
    comps,      \* the heap of Component objects: pointer -> Component
    rends,      \* the heap of Renderable objects: the object at pointer i is rends[i]
    instances,  \* the instances GetRenderableInstance returned, which the caller holds
    textures,   \* the texture manager's cache: texture key -> file it was loaded from
    stack,      \* the Go call stack of the loader, innermost frame last
    call,       \* the top-level operation in progress or last finished, with its result
    trace,      \* what the operation in progress (or last finished) did, in order
    calls       \* number of top-level operations issued so far

vars == <<storage, comps, rends, instances, textures, stack, call, trace, calls>>

\* a Component freshly decoded from JSON bytes (json.Unmarshal into new(Component));
\* the unexported fields keep their zero values
NewComponent(bytes) ==
    [Name |-> bytes.Name, Offset |-> bytes.Offset, componentDirPath |-> Empty,
     Meshes |-> [i \in 1..Len(bytes.Meshes) |->
                    [entry |-> bytes.Meshes[i], Parent |-> NoComp, SrcMesh |-> FALSE]],
     ChildReferences |-> bytes.ChildReferences,
     released |-> 0, cachedRenderable |-> <<>>]

\* the address new(Component) returns: one no live object has
NewPointer == CHOOSE id \in 1..(Cardinality(DOMAIN comps) + 1) : id \notin DOMAIN comps

\* the heap with object c added or overwritten
HeapPut(heap, c, obj) == [k \in DOMAIN heap \cup {c} |-> IF k = c THEN obj ELSE heap[k]]
\* the heap once the object c is unreachable
HeapDrop(heap, c) == [k \in DOMAIN heap \ {c} |-> heap[k]]

\* the check at the head of LoadComponentFromFile: is the name in storage already
AlreadyLoadedNever(st, name) == FALSE
AlreadyLoaded(st, name) == name \in DOMAIN st

\* cm.storage[storageName] = component, in LoadComponentFromBytes
StorageInsertLost(st, name, c) == st
StorageInsert(st, name, c) ==
    [k \in DOMAIN st \cup {name} |-> IF k = name THEN c ELSE st[k]]

\* Mesh.GetFullBinFilePath and Mesh.GetFullTexturePath: the owning component's
\* directory followed by the relative path
GetFullBinFilePath(heap, mesh) == heap[mesh.Parent].componentDirPath \o mesh.entry.BinFile
GetFullTexturePath(heap, mesh, i) ==
    heap[mesh.Parent].componentDirPath \o mesh.entry.Textures[i]

\* the error loadMeshForComponent returns for a mesh whose bin file is at path:
\* the message and the arguments it is formatted with, the BinFile field of
\* the mesh and the error of the read or of the decoding
LoadMeshErrorDecodeIgnored(binFile, path) ==
    IF binFile = Empty THEN Nil
    ELSE IF ReadFile(path).err # Nil
         THEN [msg |-> "Failed to load the binary file", BinFile |-> binFile,
               err |-> ReadFile(path).err]
         ELSE Nil
LoadMeshErrorNamesPath(binFile, path) ==
    IF binFile = Empty THEN Nil
    ELSE IF ReadFile(path).err # Nil
         THEN [msg |-> "Failed to load the binary file", BinFile |-> path,
               err |-> ReadFile(path).err]
         ELSE IF DecodeMesh(ReadFile(path).bytes) # Nil
              THEN [msg |-> "Failed to deocde the binary file", BinFile |-> path,
                    err |-> DecodeMesh(ReadFile(path).bytes)]
              ELSE Nil
LoadMeshError(binFile, path) ==
    IF binFile = Empty THEN Nil
    ELSE IF ReadFile(path).err # Nil
         THEN [msg |-> "Failed to load the binary file", BinFile |-> binFile,
               err |-> ReadFile(path).err]
         ELSE IF DecodeMesh(ReadFile(path).bytes) # Nil
              THEN [msg |-> "Failed to deocde the binary file", BinFile |-> binFile,
                    err |-> DecodeMesh(ReadFile(path).bytes)]
              ELSE Nil

\* TextureManager.LoadTexture(keyName, filePath): loads the image file and caches
\* it under the key
LoadTexture(cache, key, path) ==
    IF path \in DOMAIN FileSystem /\ FileSystem[path].kind = "image"
    THEN [cache |-> [k \in DOMAIN cache \cup {key} |-> IF k = key THEN path ELSE cache[k]],
          err |-> Nil]
    ELSE [cache |-> cache, err |-> <<"texture", path>>]

\* the texture requests of one mesh, in the order the loader makes them:
\* the generic list, then diffuse, normals and specular when non-empty
TextureRequestsKeyedByPath(heap, mesh) ==
    LET dir == heap[mesh.Parent].componentDirPath
        e == mesh.entry
    IN  [i \in 1..Len(e.Textures) |->
            [what |-> "texture", key |-> GetFullTexturePath(heap, mesh, i),
             path |-> GetFullTexturePath(heap, mesh, i)]]
        \o (IF Len(e.DiffuseTexture) > 0
            THEN << [what |-> "diffuse texture", key |-> dir \o e.DiffuseTexture,
                     path |-> dir \o e.DiffuseTexture] >> ELSE <<>>)
        \o (IF Len(e.NormalsTexture) > 0
            THEN << [what |-> "normal map texture", key |-> dir \o e.NormalsTexture,
                     path |-> dir \o e.NormalsTexture] >> ELSE <<>>)
        \o (IF Len(e.SpecularTexture) > 0
            THEN << [what |-> "specular map texture", key |-> dir \o e.SpecularTexture,
                     path |-> dir \o e.SpecularTexture] >> ELSE <<>>)
TextureRequests(heap, mesh) ==
    LET dir == heap[mesh.Parent].componentDirPath
        e == mesh.entry
    IN  [i \in 1..Len(e.Textures) |->
            [what |-> "texture", key |-> e.Textures[i],
             path |-> GetFullTexturePath(heap, mesh, i)]]
        \o (IF Len(e.DiffuseTexture) > 0
            THEN << [what |-> "diffuse texture", key |-> e.DiffuseTexture,
                     path |-> dir \o e.DiffuseTexture] >> ELSE <<>>)
        \o (IF Len(e.NormalsTexture) > 0
            THEN << [what |-> "normal map texture", key |-> e.NormalsTexture,
                     path |-> dir \o e.NormalsTexture] >> ELSE <<>>)
        \o (IF Len(e.SpecularTexture) > 0
            THEN << [what |-> "specular map texture", key |-> e.SpecularTexture,
                     path |-> dir \o e.SpecularTexture] >> ELSE <<>>)

\* what the loader does with the error of a texture request: it logs, and
\* goes on whatever the error
TextureErrorAbortsOnError(err) == err # Nil
TextureErrorAborts(err) == FALSE

\* what the loader does with the error of a child load: it logs, and goes on
ChildErrorAbortsOnError(err) == err # Nil
ChildErrorAborts(err) == FALSE

\* the storage name the loader passes to the load of a child reference
ChildStorageNameOwn(storageName, childFileName) == childFileName
ChildStorageName(storageName, childFileName) == storageName

(***************************************************************************)
(* The loader: LoadComponentFromFile and LoadComponentFromBytes, one frame *)
(* per invocation.  LoadComponentFromFile returns what its call of         *)
(* LoadComponentFromBytes returns, so the two share a frame.               *)
(***************************************************************************)
Frame(pc, filename, storageName, dir, bytes, comp, i) ==
    [pc |-> pc, filename |-> filename, storageName |-> storageName, dir |-> dir,
     bytes |-> bytes, comp |-> comp, i |-> i]

Top == stack[Len(stack)]
SetTop(f) == [stack EXCEPT ![Len(stack)] = f]
Idle == stack = <<>> /\ call.status # "overflow"

Log(level, msg, args) == [ev |-> "log", level |-> level, msg |-> msg, args |-> args]

\* the innermost invocation returns (c, err), leaving the heap as heap and the
\* trace as tr.  A top-level invocation hands the result to the caller of the
\* Manager; an invocation made for a child reference returns into the child
\* loop of its parent, which logs an error and moves to the next reference.
Return(c, err, heap, tr) ==
    /\ comps' = heap
    /\ IF Len(stack) = 1 \/ ChildErrorAborts(err)
       THEN /\ stack' = <<>>
            /\ call' = [call EXCEPT !.status = "returned", !.ret = c, !.err = err]
            /\ trace' = tr
       ELSE LET parent == stack[Len(stack) - 1]
                ref == heap[parent.comp].ChildReferences[parent.i]
            IN  /\ stack' = Append(SubSeq(stack, 1, Len(stack) - 2),
                                   [parent EXCEPT !.i = @ + 1])
                /\ call' = call
                /\ trace' = IF err # Nil
                            THEN Append(tr, Log("ERROR", "could not be loaded",
                                                [component |-> heap[parent.comp].Name,
                                                 file |-> ref.File, err |-> err]))
                            ELSE tr

NoArgs ==
    [filename |-> Empty, storageName |-> "", jsonBytes |-> Garbage,
     componentDirPath |-> Empty, component |-> NoComp]

\* the record of a top-level operation: its arguments, its result, and the
\* store, heaps and texture cache it was called on
NewCall(op, args) ==
    [op |-> op, args |-> args, status |-> "running", ret |-> NoComp, err |-> Nil,
     inst |-> <<>>, found |-> FALSE, storage |-> storage, comps |-> comps,
     rends |-> rends, textures |-> textures]

\* the caller invokes LoadComponentFromFile(filename, storageName)
CallLoadComponentFromFile(filename, storageName) ==
    /\ Idle
    /\ calls' = calls + 1
    /\ call' = NewCall("LoadComponentFromFile",
                     [NoArgs EXCEPT !.filename = filename, !.storageName = storageName])
    /\ stack' = << Frame("file", filename, storageName, Empty, Garbage, NoComp, 0) >>
    /\ trace' = <<>>
    /\ UNCHANGED <<storage, comps, textures, rends, instances>>

\* the caller invokes LoadComponentFromBytes(jsonBytes, storageName, componentDirPath)
CallLoadComponentFromBytes(jsonBytes, storageName, componentDirPath) ==
    /\ Idle
    /\ calls' = calls + 1
    /\ call' = NewCall("LoadComponentFromBytes",
                     [NoArgs EXCEPT !.jsonBytes = jsonBytes, !.storageName = storageName,
                                    !.componentDirPath = componentDirPath])
    /\ stack' = << Frame("bytes", Empty, storageName, componentDirPath, jsonBytes, NoComp, 0) >>
    /\ trace' = <<>>
    /\ UNCHANGED <<storage, comps, textures, rends, instances>>

\* LoadComponentFromFile up to its call of LoadComponentFromBytes
LoadComponentFromFile ==
    /\ stack # <<>> /\ Top.pc = "file"
    /\ LET f == Top
           r == ReadFile(f.filename)
           tr == Append(trace, [ev |-> "read", path |-> f.filename, err |-> r.err])
       IN  IF AlreadyLoaded(storage, f.storageName)
           THEN Return(storage[f.storageName], Nil, comps, trace)
           ELSE IF r.err # Nil
                THEN Return(NoComp, [msg |-> "Failed to read the component file specified.",
                                    err |-> r.err],
                            comps, tr)
                ELSE /\ stack' = SetTop([f EXCEPT !.pc = "bytes", !.bytes = r.bytes,
                                                  !.dir = SplitDir(f.filename)])
                     /\ trace' = tr
                     /\ UNCHANGED <<comps, call>>
    /\ UNCHANGED <<storage, textures, calls, rends, instances>>

\* LoadComponentFromBytes: decode the JSON and store the directory path
DecodeComponent ==
    /\ stack # <<>> /\ Top.pc = "bytes"
    /\ LET f == Top
           err == Unmarshal(f.bytes)
           tr == Append(trace, [ev |-> "unmarshal", err |-> err])
           c == NewPointer
           component == [NewComponent(f.bytes) EXCEPT !.componentDirPath = f.dir]
       IN  IF err # Nil
           THEN Return(NoComp, [msg |-> "Failed to decode the JSON in the component file specified.",
                                err |-> err],
                       comps, tr)
           ELSE /\ comps' = HeapPut(comps, c, component)
                /\ stack' = SetTop([f EXCEPT !.comp = c, !.i = 1,
                                      !.pc = IF Len(component.Meshes) = 0
                                             THEN "store" ELSE "meshes"])
                /\ trace' = tr
                /\ call' = call
    /\ UNCHANGED <<storage, textures, calls, rends, instances>>

\* compMesh.Parent = component, the first statement of loadMeshForComponent,
\* whatever the BinFile of the mesh
MeshParentIfBinFile(component, binFile) == IF binFile = Empty THEN NoComp ELSE component
MeshParent(component, binFile) == component

\* LoadComponentFromBytes: one iteration of the loop that loads the meshes,
\* that is one call of loadMeshForComponent
LoadMesh ==
    /\ stack # <<>> /\ Top.pc = "meshes"
    /\ LET f == Top
           c == f.comp
           withParent == [comps EXCEPT ![c].Meshes[f.i].Parent =
                                         MeshParent(c, comps[c].Meshes[f.i].entry.BinFile)]
           mesh == withParent[c].Meshes[f.i]
           binFile == mesh.entry.BinFile
           path == GetFullBinFilePath(withParent, mesh)
           err == LoadMeshError(binFile, path)
           tr == IF Len(binFile) > 0
                 THEN trace \o << [ev |-> "readbin", mesh |-> f.i - 1, path |-> path,
                                     err |-> ReadFile(path).err] >>
                            \o (IF ReadFile(path).err = Nil
                                THEN << [ev |-> "decodemesh", mesh |-> f.i - 1,
                                         err |-> DecodeMesh(ReadFile(path).bytes)] >>
                                ELSE <<>>)
                 ELSE trace
       IN  IF err # Nil
           THEN Return(NoComp, err, HeapDrop(withParent, c), tr)
           ELSE /\ comps' = [withParent EXCEPT ![c].Meshes[f.i].SrcMesh = Len(binFile) > 0]
                /\ stack' = SetTop(IF f.i = Len(comps[c].Meshes)
                                   THEN [f EXCEPT !.pc = "textures", !.i = 1]
                                   ELSE [f EXCEPT !.i = @ + 1])
                /\ trace' = tr
                /\ call' = call
    /\ UNCHANGED <<storage, textures, calls, rends, instances>>

\* the texture requests reqs made in order against the cache
RECURSIVE RequestTextures(_, _, _)
RequestTextures(reqs, cache, meshIndex) ==
    IF reqs = <<>>
    THEN [cache |-> cache, events |-> <<>>, err |-> Nil]
    ELSE LET q == Head(reqs)
             r == LoadTexture(cache, q.key, q.path)
             evs == << [ev |-> "texture", mesh |-> meshIndex, key |-> q.key,
                        path |-> q.path, err |-> r.err],
                       Log(IF r.err # Nil THEN "ERROR" ELSE "DEBUG", q.what,
                           [mesh |-> meshIndex, texture |-> q.key]) >>
             rest == RequestTextures(Tail(reqs), r.cache, meshIndex)
         IN  IF TextureErrorAborts(r.err)
             THEN [cache |-> r.cache, events |-> evs, err |-> r.err]
             ELSE [cache |-> rest.cache, events |-> evs \o rest.events, err |-> rest.err]

\* LoadComponentFromBytes: one iteration of the loop that loads the textures
LoadTextures ==
    /\ stack # <<>> /\ Top.pc = "textures"
    /\ LET f == Top
           c == f.comp
           res == RequestTextures(TextureRequests(comps, comps[c].Meshes[f.i]),
                                  textures, f.i - 1)
       IN  /\ textures' = res.cache
           /\ IF res.err # Nil
              THEN Return(NoComp, res.err, HeapDrop(comps, c), trace \o res.events)
              ELSE /\ stack' = SetTop(IF f.i = Len(comps[c].Meshes)
                                      THEN [f EXCEPT !.pc = "store"]
                                      ELSE [f EXCEPT !.i = @ + 1])
                   /\ trace' = trace \o res.events
                   /\ UNCHANGED <<comps, call>>
    /\ UNCHANGED <<storage, calls, rends, instances>>

\* LoadComponentFromBytes: place the new component into storage
StoreComponent ==
    /\ stack # <<>> /\ Top.pc = "store"
    /\ storage' = StorageInsert(storage, Top.storageName, Top.comp)
    /\ stack' = SetTop([Top EXCEPT !.pc = "children", !.i = 1])
    /\ trace' = Append(trace, [ev |-> "store", name |-> Top.storageName, comp |-> Top.comp])
    /\ UNCHANGED <<comps, textures, call, calls, rends, instances>>

\* LoadComponentFromBytes: one iteration of the loop over the child references,
\* or, past the last reference, the return of the component
LoadChild ==
    /\ stack # <<>> /\ Top.pc = "children"
    /\ LET f == Top
           component == comps[f.comp]
           childRef == component.ChildReferences[f.i]
           childFileName == SplitFile(childRef.File)
           path == f.dir \o childRef.File
           name == ChildStorageName(f.storageName, childFileName)
       IN  IF f.i > Len(component.ChildReferences)
           THEN Return(f.comp, Nil, comps,
                       Append(trace, Log("DEBUG", "has been loaded", [component |-> component.Name])))
           ELSE IF childFileName \in DOMAIN storage
                THEN /\ stack' = SetTop([f EXCEPT !.i = @ + 1])
                     /\ trace' = Append(trace, [ev |-> "skip", key |-> childFileName])
                     /\ UNCHANGED <<comps, call>>
                ELSE IF Len(stack) >= MaxDepth
                     THEN /\ call' = [call EXCEPT !.status = "overflow"]
                          /\ UNCHANGED <<stack, trace, comps>>
                     ELSE /\ stack' = Append(stack, Frame("file", path, name, Empty,
                                                          Garbage, NoComp, 0))
                          /\ trace' = Append(trace, [ev |-> "childload", key |-> childFileName,
                                                     path |-> path, name |-> name,
                                                     parent |-> f.comp])
                          /\ UNCHANGED <<comps, call>>
    /\ UNCHANGED <<storage, textures, calls, rends, instances>>

(***************************************************************************)
(* The store operations.                                                   *)
(***************************************************************************)
\* GetComponent(name): the component stored under the name and whether there is one
GetComponent(st, name) ==
    [c |-> IF name \in DOMAIN st THEN st[name] ELSE NoComp, okay |-> name \in DOMAIN st]

\* the caller invokes GetComponent(name)
CallGetComponent(name) ==
    /\ Idle
    /\ calls' = calls + 1
    /\ call' = [NewCall("GetComponent", [NoArgs EXCEPT !.storageName = name]) EXCEPT
                   !.status = "returned", !.ret = GetComponent(storage, name).c,
                   !.found = GetComponent(storage, name).okay]
    /\ trace' = <<>>
    /\ UNCHANGED <<storage, comps, textures, stack, rends, instances>>

\* the orders a range over the map st can take
Orders(st) ==
    { o \in [1..Cardinality(DOMAIN st) -> DOMAIN st] :
         \A i, j \in DOMAIN o : o[i] = o[j] => i = j }

\* MapComponents(foo), the range taking the entries in the order order: foo is
\* called with the component of each entry
MapComponentsDistinct(order) ==
    /\ Idle
    /\ calls' = calls + 1
    /\ call' = [NewCall("MapComponents", NoArgs) EXCEPT !.status = "returned"]
    /\ trace' = LET first == SelectSeq([i \in 1..Len(order) |-> i],
                                      LAMBDA i : \A j \in 1..(i - 1) :
                                                    storage[order[j]] # storage[order[i]])
                IN  [i \in 1..Len(first) |-> [ev |-> "visit", comp |-> storage[order[first[i]]]]]
    /\ UNCHANGED <<storage, comps, textures, stack, rends, instances>>
MapComponents(order) ==
    /\ Idle
    /\ calls' = calls + 1
    /\ call' = [NewCall("MapComponents", NoArgs) EXCEPT !.status = "returned"]
    /\ trace' = [i \in 1..Len(order) |-> [ev |-> "visit", comp |-> storage[order[i]]]]
    /\ UNCHANGED <<storage, comps, textures, stack, rends, instances>>

\* AddComponent(name, component)
AddComponentIfAbsent(name, c) ==
    /\ Idle
    /\ calls' = calls + 1
    /\ storage' = [k \in DOMAIN storage \cup {name} |->
                      IF k \in DOMAIN storage THEN storage[k] ELSE c]
    /\ call' = [NewCall("AddComponent", [NoArgs EXCEPT !.storageName = name, !.component = c])
                EXCEPT !.status = "returned"]
    /\ trace' = <<>>
    /\ UNCHANGED <<comps, textures, stack, rends, instances>>
AddComponent(name, c) ==
    /\ Idle
    /\ calls' = calls + 1
    /\ storage' = [k \in DOMAIN storage \cup {name} |-> IF k = name THEN c ELSE storage[k]]
    /\ call' = [NewCall("AddComponent", [NoArgs EXCEPT !.storageName = name, !.component = c])
                EXCEPT !.status = "returned"]
    /\ trace' = <<>>
    /\ UNCHANGED <<comps, textures, stack, rends, instances>>

\* Component.Destroy: the component releases its renderable and mesh buffers
ComponentDestroy(heap, c) ==
    [heap EXCEPT ![c].released = @ + 1, ![c].cachedRenderable = <<>>]

\* the components of the store destroyed one after the other, once per entry
RECURSIVE DestroyEach(_, _, _)
DestroyEach(heap, st, names) ==
    IF names = {} THEN heap
    ELSE LET n == CHOOSE x \in names : TRUE
         IN  DestroyEach(ComponentDestroy(heap, st[n]), st, names \ {n})

\* Manager.Destroy
DestroyKeepsStorage ==
    /\ Idle
    /\ calls' = calls + 1
    /\ comps' = DestroyEach(comps, storage, DOMAIN storage)
    /\ storage' = storage
    /\ call' = [NewCall("Destroy", NoArgs) EXCEPT !.status = "returned"]
    /\ trace' = <<>>
    /\ UNCHANGED <<textures, stack, rends, instances>>
Destroy ==
    /\ Idle
    /\ calls' = calls + 1
    /\ comps' = DestroyEach(comps, storage, DOMAIN storage)
    /\ storage' = <<>>
    /\ call' = [NewCall("Destroy", NoArgs) EXCEPT !.status = "returned"]
    /\ trace' = <<>>
    /\ UNCHANGED <<textures, stack, rends, instances>>

(***************************************************************************)
(* The cloner: GetRenderableInstance.                                      *)
(***************************************************************************)
\* a Renderable object: its transform, the mesh buffers it draws (those of
\* the component Core) and the pointers of its children
Renderable(location, core, children) ==
    [Location |-> location, Core |-> core, Children |-> children]

\* Component.GetRenderable: the component's renderable, built on first use from
\* the component and cached on it afterwards.  mem holds the two heaps.
GetRenderable(mem, c) ==
    IF mem.comps[c].cachedRenderable # <<>> THEN mem
    ELSE [comps |-> [mem.comps EXCEPT ![c].cachedRenderable = << Len(mem.rends) + 1 >>],
          rends |-> Append(mem.rends, Renderable(mem.comps[c].Offset, c, <<>>))]

\* Renderable.Clone: a new object with the same core and a copy of the
\* transform, its children cloned likewise.  The result holds the heap with
\* the new objects and the pointer of the clone.
RECURSIVE Clone(_, _), CloneEach(_, _, _, _)
Clone(heap, r) ==
    LET kids == CloneEach(heap, heap[r].Children, 1, <<>>)
    IN  [heap |-> Append(kids.heap, Renderable(heap[r].Location, heap[r].Core, kids.rs)),
         r |-> Len(kids.heap) + 1]
CloneEach(heap, children, i, rs) ==
    IF i > Len(children) THEN [heap |-> heap, rs |-> rs]
    ELSE LET k == Clone(heap, children[i])
         IN  CloneEach(k.heap, children, i + 1, Append(rs, k.r))

\* r := compRenderable.Clone()
NewInstanceShared(heap, compRenderable) == [heap |-> heap, r |-> compRenderable]
NewInstance(heap, compRenderable) == Clone(heap, compRenderable)

\* rc.Location[0..2] = cref.Location[0..2]
OverrideLocationSkipped(heap, rc, cref) == heap
OverrideLocation(heap, rc, cref) ==
    [heap EXCEPT ![rc].Location = Vec(cref.Location[1], cref.Location[2], cref.Location[3])]

\* Renderable.AddChild
AddChild(heap, r, rc) == [heap EXCEPT ![r].Children = Append(@, rc)]

\* the reference the loop goes to after reference i of n that did not resolve
\* (continue)
AfterUnresolvedStop(i, n) == n + 1
AfterUnresolved(i, n) == i + 1

\* GetRenderableInstance(component) at recursion depth depth, and its loop over
\* the child references from reference i on with the clone r built so far.
\* The result holds the heaps (renderables get cached, instances are new
\* objects), the pointer of the instance (none when the recursion went past
\* the stack), the log lines and whether the recursion went past the stack.
RECURSIVE GetRenderableInstance(_, _, _, _), CloneChildren(_, _, _, _, _, _, _)
GetRenderableInstance(mem, st, c, depth) ==
    IF depth > MaxCloneDepth
    THEN [overflow |-> TRUE, mem |-> mem, r |-> <<>>, log |-> <<>>]
    ELSE LET mem1 == GetRenderable(mem, c)
             new == NewInstance(mem1.rends, mem1.comps[c].cachedRenderable[1])
         IN  CloneChildren([mem1 EXCEPT !.rends = new.heap], st, c, 1, new.r, depth, <<>>)

CloneChildren(mem, st, c, i, r, depth, log) ==
    IF i > Len(mem.comps[c].ChildReferences)
    THEN [overflow |-> FALSE, mem |-> mem, r |-> <<r>>, log |-> log]
    ELSE LET cref == mem.comps[c].ChildReferences[i]
             childFileName == SplitFile(cref.File)
             crComponent == GetComponent(st, childFileName)
         IN  IF ~crComponent.okay
             THEN CloneChildren(mem, st, c,
                                AfterUnresolved(i, Len(mem.comps[c].ChildReferences)),
                                r, depth,
                                Append(log, Log("ERROR", "wasn't loaded",
                                                [component |-> mem.comps[c].Name,
                                                 file |-> cref.File])))
             ELSE LET sub == GetRenderableInstance(mem, st, crComponent.c, depth + 1)
                  IN  IF sub.overflow THEN sub
                      ELSE CloneChildren(
                               [sub.mem EXCEPT !.rends =
                                    AddChild(OverrideLocation(sub.mem.rends, sub.r[1], cref),
                                             r, sub.r[1])],
                               st, c, i + 1, r, depth, log \o sub.log)

\* the caller invokes GetRenderableInstance(component) and keeps the instance
CallGetRenderableInstance(c) ==
    /\ Idle
    /\ calls' = calls + 1
    /\ LET res == GetRenderableInstance([comps |-> comps, rends |-> rends], storage, c, 1)
       IN  /\ comps' = res.mem.comps
           /\ rends' = res.mem.rends
           /\ instances' = instances \o res.r
           /\ call' = [NewCall("GetRenderableInstance", [NoArgs EXCEPT !.component = c]) EXCEPT
                          !.status = IF res.overflow THEN "overflow" ELSE "returned",
                          !.inst = res.r]
           /\ trace' = res.log
    /\ UNCHANGED <<storage, textures, stack>>

\* the objects of the tree of renderable r
RECURSIVE Nodes(_, _)
Nodes(heap, r) ==
    {r} \cup UNION { Nodes(heap, heap[r].Children[i]) : i \in 1..Len(heap[r].Children) }

\* the caller moves an object of an instance it holds: r.Location = location
SetLocation(r, location) ==
    /\ Idle
    /\ calls' = calls + 1
    /\ rends' = [rends EXCEPT ![r].Location = location]
    /\ call' = [NewCall("SetLocation", NoArgs) EXCEPT !.status = "returned", !.inst = <<r>>]
    /\ trace' = <<>>
    /\ UNCHANGED <<storage, comps, instances, textures, stack>>

(***************************************************************************)
(* The editor: State.Render in component mode.  The selection of the        *)
(* editor (the active component and the active mesh, two pointers that are  *)
(* set apart from each other) and what the user left in the windows are     *)
(* the inputs of a frame.                                                   *)
(***************************************************************************)
\* Manager.GetComponentByFilepath: the component stored under the file part
\* of the path, nil when there is none
GetComponentByFilepath(st, path) == GetComponent(st, SplitFile(path)).c

\* no mesh is active in the editor
NoMesh == <<>>

\* childComp.GetRenderable as the editor calls it, with an error next to the
\* renderable: on the components of failing the call returns an error and no
\* renderable, on the others the renderable of the component
GetRenderableOrError(mem, c, failing) ==
    IF c \in failing
    THEN [mem |-> mem, r |-> <<>>, err |-> <<"renderable">>]
    ELSE LET got == GetRenderable(mem, c)
         IN  [mem |-> got, r |-> got.comps[c].cachedRenderable, err |-> Nil]

\* updateChildComponentRenderable(r, childRef): the renderable takes the
\* location of the reference
UpdateChildComponentRenderable(heap, r, childRef) ==
    [heap EXCEPT ![r].Location =
        Vec(childRef.Location[1], childRef.Location[2], childRef.Location[3])]

\* what Render prints with fmt.Printf
Printf(msg, args) == [ev |-> "printf", msg |-> msg, args |-> args]

\* the loop of Render that draws the child components of the active component
\* c, from reference i on: a child that is not in the store and a child whose
\* renderable cannot be got are reported and left alone, the renderable of
\* any other child is updated from the reference and drawn
RECURSIVE DrawChildren(_, _, _, _, _, _)
DrawChildren(mem, st, c, i, failing, log) ==
    IF i > Len(mem.comps[c].ChildReferences)
    THEN [comps |-> mem.comps, rends |-> mem.rends, log |-> log]
    ELSE LET childRef == mem.comps[c].ChildReferences[i]
             childComp == GetComponentByFilepath(st, childRef.File)
             got == GetRenderableOrError(mem, childComp, failing)
         IN  IF childComp = NoComp
             THEN DrawChildren(mem, st, c, i + 1, failing,
                               Append(log, Printf("missing child component", <<>>)))
             ELSE IF got.err # Nil
             THEN DrawChildren(got.mem, st, c, i + 1, failing,
                               Append(log, Printf("couldn't get the renderable for child component",
                                                  << mem.comps[childComp].Name, got.err >>)))
             ELSE DrawChildren([got.mem EXCEPT !.rends =
                                    UpdateChildComponentRenderable(@, got.r[1], childRef)],
                               st, c, i + 1, failing,
                               Append(log, [ev |-> "draw", renderable |-> got.r[1]]))

\* renderComponentProperties: the name and the offset in the properties
\* window are written to the active component
EditName(heap, c, name) == [heap EXCEPT ![c].Name = name]
EditOffset(heap, c, offset) == [heap EXCEPT ![c].Offset = offset]

\* renderMeshProperties: the name in the mesh window is written to the active
\* mesh; activeMesh is no mesh or << component, index >>, a mesh of any
\* component, the active one or another
EditMeshName(heap, activeMesh, name) ==
    IF activeMesh = NoMesh THEN heap
    ELSE [heap EXCEPT ![activeMesh[1]].Meshes[activeMesh[2]].entry.Name = name]

\* State.Render.  With an active component c its children are drawn and the
\* properties window writes name and offset to it; with none (NoComp) the
\* browser lists the store.  With an active mesh the mesh window writes
\* meshName to it, whichever component is active.
Render(c, name, offset, activeMesh, meshName, failing) ==
    /\ Idle
    /\ calls' = calls + 1
    /\ LET drawn == IF c = NoComp
                    THEN [comps |-> comps, rends |-> rends, log |-> <<>>]
                    ELSE DrawChildren([comps |-> comps, rends |-> rends], storage, c, 1,
                                      failing, <<>>)
           edited == IF c = NoComp THEN drawn.comps
                     ELSE EditOffset(EditName(drawn.comps, c, name), c, offset)
       IN  /\ comps' = EditMeshName(edited, activeMesh, meshName)
           /\ rends' = drawn.rends
           /\ trace' = drawn.log
    /\ call' = [NewCall("Render", [NoArgs EXCEPT !.component = c]) EXCEPT !.status = "returned"]
    /\ UNCHANGED <<storage, instances, textures, stack>>

(***************************************************************************)
(* The inputs the operations are called with.                              *)
(***************************************************************************)
LoadPaths == { <<"a.json">>, <<"table.json">>, <<"parts", "leg.json">>,
               <<"shelf.json">>, <<"crate.json">>, <<"broken.json">>, <<"missing.json">> }
\* a component is stored under the base name of its file or under a name of
\* the caller's
NamesFor(path) == { SplitFile(path), "main" }
ByteInputs == { FileSystem[<<"parts", "leg.json">>],
                FileSystem[<<"shelf.json">>], FileSystem[<<"a.json">>], Garbage }
\* directory paths end with their separator, as filepath.Split returns them
Dirs == { Empty, <<"parts">> }
Names == { "a.json", "leg.json", "main" }
\* where the caller moves an instance to, and the offset the user of the
\* editor gives a component
Moved == Vec(9, 9, 9)
\* the name the user of the editor types
Edited == "edited"
\* the meshes the user of the editor can have made the active one
ActiveMeshes ==
    UNION { { << c, m >> : m \in 1..Len(comps[c].Meshes) } : c \in DOMAIN comps }
\* the children of c that are in the store: the components GetRenderable is
\* called on in a frame with c active
StoredChildren(c) ==
    { GetComponentByFilepath(storage, comps[c].ChildReferences[i].File) :
        i \in 1..Len(comps[c].ChildReferences) } \ {NoComp}
\* the renderables of all children are got in a frame, or of none
Failing(c) == { {}, StoredChildren(c) }
\* what happens in a frame with component c active: the user types a name,
\* drags the offset (and the renderables of the children are got or not), or
\* types the name of the active mesh (a mesh of any component)
Edits(c) ==
    LET same == [name |-> comps[c].Name, offset |-> comps[c].Offset,
                 activeMesh |-> NoMesh, failing |-> {}]
    IN  { [same EXCEPT !.name = Edited] }
        \cup { [same EXCEPT !.offset = Moved, !.failing = f] : f \in Failing(c) }
        \cup { [same EXCEPT !.activeMesh = am] : am \in ActiveMeshes }
\* the component files that load
TreePaths == { <<"a.json">>, <<"b.json">>, <<"table.json">>, <<"parts", "leg.json">> }

Init ==
    /\ storage = <<>>
    /\ comps = <<>>
    /\ rends = <<>>
    /\ instances = <<>>
    /\ textures = <<>>
    /\ stack = <<>>
    /\ call = [op |-> "NewManager", args |-> NoArgs, status |-> "returned", ret |-> NoComp,
               err |-> Nil, inst |-> <<>>, found |-> FALSE, storage |-> <<>>,
               comps |-> <<>>, rends |-> <<>>, textures |-> <<>>]
    /\ trace = <<>>
    /\ calls = 0

\* the steps of the loader
LoaderStep ==
    \/ LoadComponentFromFile
    \/ DecodeComponent
    \/ LoadMesh
    \/ LoadTextures
    \/ StoreComponent
    \/ LoadChild

\* the operations a caller of the Manager can invoke, and the steps of the loader
Next ==
    \/ \E p \in LoadPaths : \E n \in NamesFor(p) :
          calls < MaxCalls /\ CallLoadComponentFromFile(p, n)
    \/ \E b \in ByteInputs : \E d \in Dirs :
          calls < MaxCalls /\ CallLoadComponentFromBytes(b, "main", d)
    \/ \E n \in Names : \E c \in DOMAIN comps : calls < MaxCalls /\ AddComponent(n, c)
    \/ calls < MaxCalls /\ Destroy
    \/ \E c \in DOMAIN comps : \E e \in Edits(c) :
          calls < MaxCalls /\ Render(c, e.name, e.offset, e.activeMesh, Edited, e.failing)
    \/ \E am \in ActiveMeshes :
          calls < MaxCalls /\ Render(NoComp, Edited, Moved, am, Edited, {})
    \/ \E c \in DOMAIN comps : calls < MaxCalls /\ CallGetRenderableInstance(c)
    \/ \E n \in Names : calls < MaxCalls /\ CallGetComponent(n)
    \/ \E o \in Orders(storage) : calls < MaxCalls /\ MapComponents(o)
    \/ LoaderStep

Spec == Init /\ [][Next]_vars

\* the loads and the additions that set the store up for them
LoadNext ==
    \/ \E p \in LoadPaths : \E n \in NamesFor(p) :
          calls < MaxLoadCalls /\ CallLoadComponentFromFile(p, n)
    \/ \E b \in ByteInputs : \E d \in Dirs :
          calls < MaxLoadCalls /\ CallLoadComponentFromBytes(b, "main", d)
    \/ \E n \in Names : \E c \in DOMAIN comps : calls < MaxLoadCalls /\ AddComponent(n, c)
    \/ LoaderStep

\* the steps of the loader run to completion once an operation was called:
\* the program is sequential and nothing preempts a call
FairSpec == Init /\ [][LoadNext]_vars /\ WF_vars(LoaderStep)

\* building a store of components that load and cloning instances of them
TreeNext ==
    \/ \E p \in TreePaths : \E n \in NamesFor(p) :
          calls < MaxTreeCalls /\ CallLoadComponentFromFile(p, n)
    \/ \E n \in Names : \E c \in DOMAIN comps : calls < MaxTreeCalls /\ AddComponent(n, c)
    \/ \E c \in DOMAIN comps : calls < MaxTreeCalls /\ CallGetRenderableInstance(c)
    \/ \E i \in DOMAIN instances : \E r \in Nodes(rends, instances[i]) :
          calls < MaxTreeCalls /\ SetLocation(r, Moved)
    \/ \E c \in DOMAIN comps :
          \E failing \in Failing(c) :
             calls < MaxTreeCalls /\ Render(c, comps[c].Name, Moved, NoMesh, Edited, failing)
    \/ LoaderStep

TreeSpec == Init /\ [][TreeNext]_vars

(***************************************************************************)
(* Vocabulary of the properties.                                           *)
(***************************************************************************)
Returned(op) == call.status = "returned" /\ call.op = op
FileLoadReturned == Returned("LoadComponentFromFile")
BytesLoadReturned == Returned("LoadComponentFromBytes")
LoadReturned == FileLoadReturned \/ BytesLoadReturned

\* the storage name a load was called with
LoadName == call.args.storageName

\* the events of the trace of kind ev
Events(ev) == { i \in 1..Len(trace) : trace[i].ev = ev }
Failed(ev) == { i \in Events(ev) : trace[i].err # Nil }

\* the store and the stored components are as they were when the operation was called
StoreUnchanged ==
    /\ storage = call.storage
    /\ \A k \in DOMAIN storage : comps[storage[k]] = call.comps[storage[k]]

\* a load that went past the store check, decoded its JSON and loaded all its meshes
OwnPartsValid ==
    /\ LoadReturned
    /\ Events("unmarshal") # {} /\ Failed("unmarshal") = {}
    /\ Failed("readbin") = {} /\ Failed("decodemesh") = {}

(***************************************************************************)
(* C1: LoadComponentFromFile called with a storage name that is a key of   *)
(* the store returns the stored Component and a nil error without reading  *)
(* or parsing any file, and leaves the store and every Component as they   *)
(* were (so a change made to the Component between two loads is kept).     *)
(***************************************************************************)
C1_LoadFromFileIdempotent ==
    (FileLoadReturned /\ LoadName \in DOMAIN call.storage) =>
        /\ call.ret = call.storage[LoadName]
        /\ call.err = Nil
        /\ Events("read") = {} /\ Events("unmarshal") = {}
        /\ storage = call.storage
        /\ comps = call.comps

\* a second load under a taken name, of a file that cannot be read, returned
\* the component that was edited after the first load
C1_Witness ==
    /\ FileLoadReturned /\ LoadName \in DOMAIN call.storage
    /\ call.args.filename \notin DOMAIN FileSystem
    /\ call.ret # NoComp /\ comps[call.ret].Name = "edited"

(***************************************************************************)
(* C2 as claimed: LoadComponentFromBytes called with a storage name that   *)
(* is a key of the store returns the stored Component, and the entry under *)
(* the name is the same Component before and after.                        *)
(***************************************************************************)
C2_LoadFromBytesIdempotent ==
    (BytesLoadReturned /\ LoadName \in DOMAIN call.storage) =>
        /\ call.ret = call.storage[LoadName]
        /\ storage[LoadName] = call.storage[LoadName]

(***************************************************************************)
(* C2 amended: LoadComponentFromBytes does not look the storage name up.   *)
(* Called with a name that is a key of the store it decodes the bytes; on  *)
(* success it returns a new Component, which replaces the entry under the  *)
(* name, and on a decode or mesh failure it returns an error and no        *)
(* Component and the entry is the Component it was.                        *)
(***************************************************************************)
C2_LoadFromBytesReplaces ==
    (BytesLoadReturned /\ LoadName \in DOMAIN call.storage) =>
        /\ Events("unmarshal") # {}
        /\ IF call.err = Nil
           THEN /\ call.ret \notin DOMAIN call.comps
                /\ call.ret \in DOMAIN comps
                /\ LoadName \in DOMAIN storage /\ storage[LoadName] = call.ret
           ELSE /\ call.ret = NoComp
                /\ storage = call.storage

\* a load from bytes under a taken name succeeded
C2_Witness ==
    /\ BytesLoadReturned /\ LoadName \in DOMAIN call.storage
    /\ call.err = Nil
    /\ storage[LoadName] # call.storage[LoadName]

(***************************************************************************)
(* C3: every call of LoadComponentFromFile or LoadComponentFromBytes       *)
(* returns, whatever the child references of the files are (a file that    *)
(* references itself, files that reference each other): the recursion      *)
(* never goes past the stack.                                              *)
(***************************************************************************)
C3_LoadTerminates == (call.status = "running") ~> (call.status = "returned")

\* a load of a.json, whose child b.json references a.json back, returned
\* after the child loop had called the loader for a reference
C3_Witness ==
    /\ FileLoadReturned /\ call.args.filename = <<"a.json">> /\ call.err = Nil
    /\ Events("childload") # {}

(***************************************************************************)
(* C4: from an empty store, after a load of A, where A references B and B  *)
(* references A and both files are valid, A and B are both in the store.   *)
(***************************************************************************)
C4_CycleBothRegistered ==
    (FileLoadReturned /\ call.args.filename = <<"a.json">> /\ call.storage = <<>>) =>
        /\ \E k \in DOMAIN storage : comps[storage[k]].Name = "A"
        /\ \E k \in DOMAIN storage : comps[storage[k]].Name = "B"

(***************************************************************************)
(* C5: when the read or the decoding of the bin file of a mesh fails, the  *)
(* load returns an error and no Component, and the store and the stored    *)
(* Components are as before the call, whichever mesh fails.                *)
(***************************************************************************)
C5_MeshFailureAborts ==
    (LoadReturned /\ (Failed("readbin") # {} \/ Failed("decodemesh") # {})) =>
        /\ call.err # Nil
        /\ call.ret = NoComp
        /\ StoreUnchanged

\* the second mesh failed to decode after the first one was decoded, with
\* components in the store
C5_Witness ==
    /\ LoadReturned /\ call.storage # <<>>
    /\ \E i \in Failed("decodemesh") : trace[i].mesh = 1
    /\ \E i \in Events("decodemesh") : trace[i].mesh = 0 /\ trace[i].err = Nil

\* the cases of C6 and what it says of them: a load of a file that cannot be
\* read, a load of bytes that are no JSON document, and a call that did nothing
C6_Unreadable ==
    /\ FileLoadReturned /\ LoadName \notin DOMAIN call.storage
    /\ call.args.filename \notin DOMAIN FileSystem
C6_Malformed ==
    \/ /\ FileLoadReturned /\ LoadName \notin DOMAIN call.storage
       /\ call.args.filename \in DOMAIN FileSystem
       /\ FileSystem[call.args.filename].kind # "json"
    \/ /\ BytesLoadReturned /\ call.args.jsonBytes.kind # "json"
C6_NothingDone ==
    /\ call.ret = NoComp
    /\ storage = call.storage /\ comps = call.comps /\ textures = call.textures
    /\ Events("readbin") = {} /\ Events("texture") = {} /\ Events("childload") = {}
    /\ Events("store") = {}

(***************************************************************************)
(* C6: LoadComponentFromFile of an unreadable file under a free name       *)
(* returns the read error and no Component; a load of malformed JSON       *)
(* returns the decode error and no Component; in both cases the store is   *)
(* unchanged and no mesh is read, no texture requested and no child loaded.*)
(***************************************************************************)
C6_ReadAndDecodeErrors ==
    /\ C6_Unreadable =>
          /\ call.err # Nil /\ call.err.msg = "Failed to read the component file specified."
          /\ Events("unmarshal") = {}
          /\ C6_NothingDone
    /\ C6_Malformed =>
          /\ call.err # Nil
          /\ call.err.msg = "Failed to decode the JSON in the component file specified."
          /\ C6_NothingDone

\* an unreadable file was loaded under a free name into a store that holds components
C6_Witness == C6_Unreadable /\ call.storage # <<>> /\ call.err # Nil

\* the number of texture requests the entry of a mesh asks for
NumRequests(e) ==
    Len(e.Textures) + (IF e.DiffuseTexture # Empty THEN 1 ELSE 0)
                    + (IF e.NormalsTexture # Empty THEN 1 ELSE 0)
                    + (IF e.SpecularTexture # Empty THEN 1 ELSE 0)
RECURSIVE SumRequests(_, _)
SumRequests(meshes, n) ==
    IF n = 0 THEN 0 ELSE NumRequests(meshes[n].entry) + SumRequests(meshes, n - 1)

\* the returned component is the one registered under the storage name
ReturnedAndRegistered ==
    /\ call.err = Nil
    /\ call.ret \in DOMAIN comps
    /\ LoadName \in DOMAIN storage /\ storage[LoadName] = call.ret

(***************************************************************************)
(* C7: a load whose JSON and mesh binaries are valid returns the Component *)
(* with a nil error and registers it under the storage name whichever of   *)
(* its texture requests fail, and it makes every texture request of every  *)
(* mesh, also after a failed one.                                          *)
(***************************************************************************)
C7_TextureFailuresNotFatal ==
    OwnPartsValid =>
        /\ ReturnedAndRegistered
        /\ Cardinality(Events("texture")) =
               SumRequests(comps[call.ret].Meshes, Len(comps[call.ret].Meshes))

\* a load returned with a failed texture request followed by a successful one
C7_Witness ==
    /\ OwnPartsValid /\ call.err = Nil
    /\ \E i \in Failed("texture") : \E j \in Events("texture") :
          j > i /\ trace[j].err = Nil

(***************************************************************************)
(* C8: a load whose own JSON and mesh binaries are valid returns the       *)
(* parent Component with a nil error and leaves it registered under the    *)
(* storage name whatever the files of its child references are, and every  *)
(* child reference is processed (skipped or handed to the loader).         *)
(***************************************************************************)
C8_ChildFailuresNotFatal ==
    OwnPartsValid =>
        /\ ReturnedAndRegistered
        /\ Cardinality(Events("skip") \cup Events("childload")) =
               Len(comps[call.ret].ChildReferences)

\* a load returned whose references to a missing file and to a malformed file
\* were handed to the loader, and a later reference after them
C8_Witness ==
    /\ OwnPartsValid /\ call.err = Nil
    /\ \E i, j, k \in Events("childload") :
          /\ i < j /\ j < k
          /\ trace[i].path \notin DOMAIN FileSystem
          /\ trace[j].path \in DOMAIN FileSystem
          /\ FileSystem[trace[j].path].kind = "garbage"

(***************************************************************************)
(* C9: from an empty store, after the load of a component with one child   *)
(* reference to a valid component file, GetRenderableInstance on it        *)
(* returns a root with exactly one child, at the location of the reference *)
(* (table.json with its leg at (1,0,0)).                                   *)
(***************************************************************************)
C9_TableHasOneChild ==
    (Returned("GetRenderableInstance") /\ calls = 2
        /\ comps[call.args.component].Name = "Table") =>
        /\ Len(rends[call.inst[1]].Children) = 1
        /\ rends[rends[call.inst[1]].Children[1]].Location = Vec(1, 0, 0)

\* the references of component c that resolve in the store, in order
Resolving(c) ==
    SelectSeq(comps[c].ChildReferences, LAMBDA ref : SplitFile(ref.File) \in DOMAIN storage)

\* every child of the instance r of component c, at every depth, is at the
\* location of the reference it was made for
RECURSIVE LocationsOverridden(_, _)
LocationsOverridden(c, r) ==
    /\ Len(rends[r].Children) = Len(Resolving(c))
    /\ \A i \in 1..Len(rends[r].Children) :
          /\ rends[rends[r].Children[i]].Location = Resolving(c)[i].Location
          /\ LocationsOverridden(storage[SplitFile(Resolving(c)[i].File)],
                                 rends[r].Children[i])

(***************************************************************************)
(* C10: in the tree GetRenderableInstance returns, every child instance    *)
(* made for a child reference has the location of that reference, at every *)
(* depth, whatever the offset of the referenced Component and the location *)
(* of its renderable.                                                      *)
(***************************************************************************)
C10_ChildLocationOverridden ==
    Returned("GetRenderableInstance") =>
        LocationsOverridden(call.args.component, call.inst[1])

\* a tree with a child of a child, whose components have offsets that differ
\* from the locations of the references
C10_Witness ==
    /\ Returned("GetRenderableInstance")
    /\ \E i \in 1..Len(rends[call.inst[1]].Children) :
          LET rc == rends[rends[call.inst[1]].Children[i]]
          IN  /\ comps[rc.Core].Offset # rc.Location
              /\ \E j \in 1..Len(rc.Children) :
                    comps[rends[rc.Children[j]].Core].Offset # rends[rc.Children[j]].Location

\* the references of component c that do not resolve in the store
Unresolved(c) ==
    { i \in 1..Len(comps[c].ChildReferences) :
         ~GetComponent(storage, SplitFile(comps[c].ChildReferences[i].File)).okay }

(***************************************************************************)
(* C11: GetRenderableInstance returns an instance whichever child          *)
(* references resolve.  The root has exactly one child per reference whose *)
(* base file name is a key of the store, in the order of the references,   *)
(* each an instance of the Component stored under that key; a reference    *)
(* that does not resolve adds no child, is logged as an error, and does    *)
(* not keep later references from being attached.                          *)
(***************************************************************************)
C11_UnresolvedChildrenSkipped ==
    Returned("GetRenderableInstance") =>
        LET c == call.args.component
            root == rends[call.inst[1]]
        IN  /\ root.Core = c
            /\ Len(root.Children) = Len(Resolving(c))
            /\ \A i \in 1..Len(root.Children) :
                  rends[root.Children[i]].Core =
                      GetComponent(storage, SplitFile(Resolving(c)[i].File)).c
            /\ \A i \in Unresolved(c) :
                  \E j \in Events("log") :
                      /\ trace[j].level = "ERROR"
                      /\ trace[j].args = [component |-> comps[c].Name,
                                          file |-> comps[c].ChildReferences[i].File]

\* an instance with a child for a reference that follows one that did not resolve
C11_Witness ==
    /\ Returned("GetRenderableInstance")
    /\ \E i \in Unresolved(call.args.component) :
          \E j \in 1..Len(comps[call.args.component].ChildReferences) :
              j > i /\ j \notin Unresolved(call.args.component)
    /\ Len(rends[call.inst[1]].Children) > 0

\* the canonical renderables: those the components have cached
Canonical ==
    { comps[c].cachedRenderable[1] : c \in { x \in DOMAIN comps : comps[x].cachedRenderable # <<>> } }

(***************************************************************************)
(* C12: the instances GetRenderableInstance returns are trees of objects   *)
(* of their own: no object belongs to two instances or is the canonical    *)
(* renderable of a Component, and the root has the core (the mesh buffers) *)
(* of the canonical renderable of the Component.  GetRenderableInstance    *)
(* writes to new objects only, and a write of the location of an object of *)
(* an instance changes that object only, so the other instances and every  *)
(* canonical renderable are as they were.                                  *)
(***************************************************************************)
C12_InstancesIndependent ==
    call.status # "overflow" =>
        /\ \A i, j \in DOMAIN instances :
              i # j => Nodes(rends, instances[i]) \cap Nodes(rends, instances[j]) = {}
        /\ \A i \in DOMAIN instances : Nodes(rends, instances[i]) \cap Canonical = {}
        /\ \A c \in DOMAIN comps :
              comps[c].cachedRenderable # <<>> =>
                  /\ rends[comps[c].cachedRenderable[1]].Core = c
                  /\ rends[comps[c].cachedRenderable[1]].Children = <<>>
        /\ Returned("GetRenderableInstance") =>
              /\ rends[call.inst[1]].Core =
                     rends[comps[call.args.component].cachedRenderable[1]].Core
              /\ \A r \in DOMAIN call.rends : rends[r] = call.rends[r]
        /\ Returned("SetLocation") =>
              \A r \in DOMAIN call.rends \ {call.inst[1]} : rends[r] = call.rends[r]

\* two instances of one Component, made with an override of the location of
\* a child, of which the caller moved one
C12_Witness ==
    /\ Returned("SetLocation")
    /\ \E i, j \in DOMAIN instances :
          /\ i # j
          /\ rends[instances[i]].Core = rends[instances[j]].Core
          /\ rends[instances[i]].Location = Moved
          /\ rends[instances[j]].Location # Moved
          /\ Len(rends[instances[i]].Children) > 0
          /\ Len(rends[instances[j]].Children) > 0

(***************************************************************************)
(* C13: when a load under storage name n returned a Component and a nil    *)
(* error, GetComponent(n) called next returns that very Component and      *)
(* true, whatever child references the load processed.                     *)
(***************************************************************************)
C13_GetReturnsLoaded ==
    [][ (/\ LoadReturned /\ call.err = Nil
         /\ call'.op = "GetComponent" /\ calls' = calls + 1
         /\ call'.args.storageName = LoadName)
        => (call'.found /\ call'.ret = call.ret) ]_vars

\* GetComponent found, right after the first load, a Component with child references
C13_Witness ==
    /\ Returned("GetComponent") /\ calls = 2
    /\ call.found /\ call.ret # NoComp
    /\ Len(comps[call.ret].ChildReferences) > 1

(***************************************************************************)
(* C14: AddComponent(name, c) stores c under name whether or not the name  *)
(* was a key: afterwards GetComponent(name) returns c and true, every      *)
(* other key maps to the Component it mapped to, and no Component is       *)
(* destroyed or changed, the one stored under name before included.  A     *)
(* name becomes a key only by an AddComponent or a load with that name, so *)
(* GetComponent of a name never added or loaded returns false.             *)
(***************************************************************************)
C14_AddIsUpsert ==
    [][ /\ (call'.op = "AddComponent" /\ calls' = calls + 1) =>
              /\ GetComponent(storage', call'.args.storageName) =
                     [c |-> call'.args.component, okay |-> TRUE]
              /\ DOMAIN storage' = DOMAIN storage \cup {call'.args.storageName}
              /\ \A k \in DOMAIN storage \ {call'.args.storageName} :
                    storage'[k] = storage[k]
              /\ comps' = comps
        /\ \A k \in DOMAIN storage' \ DOMAIN storage :
              \/ call'.op = "AddComponent" /\ calls' = calls + 1
                    /\ call'.args.storageName = k
              \/ call.status = "running" /\ call' = call /\ call.args.storageName = k
        /\ (call'.op = "GetComponent" /\ calls' = calls + 1) =>
              (call'.found <=> call'.args.storageName \in DOMAIN storage) ]_vars

\* an AddComponent replaced the Component stored under the name by another
\* one, with other entries in the store
C14_Witness ==
    /\ Returned("AddComponent")
    /\ LoadName \in DOMAIN call.storage
    /\ call.storage[LoadName] # call.args.component
    /\ DOMAIN storage # {LoadName}

(***************************************************************************)
(* C15: when Destroy returns the store is empty, so that GetComponent      *)
(* finds no name and MapComponents visits nothing, and every Component     *)
(* that was in the store has been destroyed.  A LoadComponentFromFile      *)
(* called on the empty store reads the file and decodes it, and the        *)
(* Component it returns is a new one, not one that existed before.         *)
(***************************************************************************)
C15_DestroyEmptiesStore ==
    /\ Returned("Destroy") =>
          /\ storage = <<>>
          /\ \A n \in Names \cup DOMAIN call.storage : ~GetComponent(storage, n).okay
          /\ Orders(storage) = { <<>> }
          /\ \A k \in DOMAIN call.storage :
                comps[call.storage[k]].released > call.comps[call.storage[k]].released
    /\ (FileLoadReturned /\ call.storage = <<>>) =>
          /\ Events("read") # {}
          /\ Failed("read") = {} => Events("unmarshal") # {}
          /\ call.ret # NoComp => call.ret \notin DOMAIN call.comps

\* after a Destroy, a load of the file of a destroyed Component returned a new
\* Component
C15_Witness ==
    /\ FileLoadReturned /\ call.storage = <<>> /\ call.err = Nil
    /\ \E c \in DOMAIN call.comps :
          /\ call.comps[c].released > 0
          /\ call.comps[c].Name = comps[call.ret].Name
          /\ c # call.ret

(***************************************************************************)
(* C16: over any sequence of operations of the Manager, Destroy of a       *)
(* Component (the release of its GPU resources) is invoked at most once    *)
(* for each Component, also when the Component is stored under two names   *)
(* or Destroy is called again.                                             *)
(***************************************************************************)
C16_ReleasedAtMostOnce == \A c \in DOMAIN comps : comps[c].released <= 1

\* the load failed at a mesh: the events of the failed read or decoding
MeshFailures == Failed("readbin") \cup Failed("decodemesh")
\* the bin file of the mesh with index i (from 0) that the load asked for
BinFileOfMesh(i) ==
    LET bytes == IF call.op = "LoadComponentFromFile"
                 THEN FileSystem[call.args.filename] ELSE call.args.jsonBytes
    IN  bytes.Meshes[i + 1].BinFile

(***************************************************************************)
(* C17 as claimed: when the read or the decoding of the bin file of a mesh *)
(* fails, the returned error identifies the index of the mesh among the    *)
(* meshes of the component and its bin file.                               *)
(***************************************************************************)
C17_ErrorNamesIndexAndFile ==
    (LoadReturned /\ MeshFailures # {}) =>
        \A i \in MeshFailures :
            /\ call.err # Nil
            /\ "BinFile" \in DOMAIN call.err
            /\ call.err.BinFile = BinFileOfMesh(trace[i].mesh)
            /\ "index" \in DOMAIN call.err
            /\ call.err.index = trace[i].mesh

(***************************************************************************)
(* C17 amended: when the read or the decoding of the bin file of a mesh    *)
(* fails, the returned error carries the BinFile field of that mesh, as it *)
(* is written in the JSON, and the error of the read or of the decoding,   *)
(* and nothing else: the index of the mesh is not part of it.              *)
(***************************************************************************)
C17_ErrorNamesFileOnly ==
    (LoadReturned /\ MeshFailures # {}) =>
        \A i \in MeshFailures :
            /\ call.err # Nil
            /\ DOMAIN call.err = {"msg", "BinFile", "err"}
            /\ call.err.BinFile = BinFileOfMesh(trace[i].mesh)
            /\ call.err.err = trace[i].err

\* the second mesh of a component failed, and the bin file the error names is
\* not the path that was read
C17_Witness ==
    /\ LoadReturned /\ call.err # Nil
    /\ (\E i \in MeshFailures : trace[i].mesh = 1)
    /\ \E i \in Failed("readbin") : trace[i].path # call.err.BinFile

\* the number of calls of the function given to MapComponents with Component c
Visits(c) == Cardinality({ i \in Events("visit") : trace[i].comp = c })

(***************************************************************************)
(* C18 as claimed: MapComponents calls the function exactly once for each  *)
(* Component in the store and for no other Component, does not change the  *)
(* store, and the number of calls is the number of entries of the store.   *)
(***************************************************************************)
C18_VisitsOncePerComponent ==
    Returned("MapComponents") =>
        /\ \A c \in DOMAIN comps :
              Visits(c) = IF \E k \in DOMAIN storage : storage[k] = c THEN 1 ELSE 0
        /\ storage = call.storage /\ comps = call.comps
        /\ Cardinality(Events("visit")) = Cardinality(DOMAIN call.storage)

(***************************************************************************)
(* C18 amended: MapComponents calls the function once for each entry of    *)
(* the store, so a Component is visited as many times as there are names   *)
(* it is stored under, and a Component that is not in the store is not     *)
(* visited; the store and the Components are unchanged and the number of   *)
(* calls is the number of entries.                                         *)
(***************************************************************************)
C18_VisitsOncePerEntry ==
    Returned("MapComponents") =>
        /\ \A c \in DOMAIN comps :
              Visits(c) = Cardinality({ k \in DOMAIN call.storage : call.storage[k] = c })
        /\ storage = call.storage /\ comps = call.comps
        /\ Len(trace) = Cardinality(DOMAIN call.storage)
        /\ Events("visit") = DOMAIN trace

\* MapComponents ran on a store that holds one Component under two names
C18_Witness ==
    /\ Returned("MapComponents")
    /\ \E c \in DOMAIN comps : Visits(c) = 2
    /\ \E k1, k2 \in DOMAIN storage : k1 # k2 /\ storage[k1] = storage[k2]

\* the events of the trace in which a mesh binary is read or decoded, and
\* those in which a child reference is examined
MeshEvents == Events("readbin") \cup Events("decodemesh")
ChildEvents == Events("skip") \cup Events("childload")
\* every mesh of Component c that names a bin file has its decoded mesh
MeshesDecoded(c) ==
    \A m \in 1..Len(comps[c].Meshes) :
        comps[c].Meshes[m].entry.BinFile # Empty => comps[c].Meshes[m].SrcMesh

(***************************************************************************)
(* C19: within a load, every read and decoding of a mesh binary comes      *)
(* before every texture request, every texture request before the insert   *)
(* into the store, and the insert before the examination of any child      *)
(* reference.  When the texture requests start all meshes are decoded,     *)
(* when the child references are examined all texture requests were made,  *)
(* whenever a load is invoked for a child reference the storage name maps  *)
(* to the parent Component, and every Component in the store has all its   *)
(* required mesh binaries decoded.                                         *)
(***************************************************************************)
C19_LoadStepsOrdered ==
    /\ \A i \in MeshEvents : \A j \in Events("texture") \cup Events("store") \cup ChildEvents :
          i < j
    /\ \A i \in Events("texture") : \A j \in Events("store") \cup ChildEvents : i < j
    /\ \A i \in Events("store") : \A j \in ChildEvents : i < j
    /\ \A k \in DOMAIN stack :
          /\ stack[k].pc \in {"textures", "store", "children"} => MeshesDecoded(stack[k].comp)
          /\ stack[k].pc \in {"store", "children"} =>
                Cardinality(Events("texture")) >=
                    SumRequests(comps[stack[k].comp].Meshes, Len(comps[stack[k].comp].Meshes))
          /\ stack[k].pc = "children" => Events("store") # {}
          /\ k > 1 =>
                /\ stack[k - 1].pc = "children"
                /\ GetComponent(storage, stack[k - 1].storageName) =
                       [c |-> stack[k - 1].comp, okay |-> TRUE]
    /\ \A n \in DOMAIN storage : MeshesDecoded(storage[n])

\* a load is invoked for a child reference of a Component with mesh binaries
\* and textures
C19_Witness ==
    /\ Len(stack) = 2
    /\ Events("decodemesh") # {} /\ Events("texture") # {}
    /\ Events("childload") # {}

\* the child references the load handed to the loader (their key was not in
\* the store) whose file is a valid component file
ValidChildLoads ==
    { i \in Events("childload") :
         /\ trace[i].path \in DOMAIN FileSystem
         /\ FileSystem[trace[i].path].kind = "json" }
\* the last of them
LastValidChildLoad == CHOOSE i \in ValidChildLoads : \A j \in ValidChildLoads : j <= i

(***************************************************************************)
(* C20: after a load of a parent that has child references whose key is    *)
(* not in the store and whose file is a valid component, the entry under   *)
(* the storage name of the parent holds the child, the last one when there *)
(* are several, and the child has no entry under the key made of its file  *)
(* name.  The code does not do this: the load invoked for the child gets   *)
(* the storage name of the parent, which is a key by then, and returns the *)
(* parent without reading the file of the child.                           *)
(***************************************************************************)
C20_ChildUnderParentName ==
    (OwnPartsValid /\ ValidChildLoads # {}) =>
        /\ LoadName \in DOMAIN storage
        /\ storage[LoadName] # call.ret
        /\ comps[storage[LoadName]].Name = FileSystem[trace[LastValidChildLoad].path].Name
        /\ \A i \in ValidChildLoads : trace[i].key \notin DOMAIN storage \ {LoadName}

\* the loop over the child references is at a reference: the reference
ExaminesChild ==
    /\ stack # <<>> /\ Top.pc = "children"
    /\ Top.i <= Len(comps[Top.comp].ChildReferences)
CurrentChild == comps[Top.comp].ChildReferences[Top.i]

(***************************************************************************)
(* C21: when the loader examines a child reference, the key is the file    *)
(* part of the path of the reference.  If the key is in the store at that  *)
(* moment the reference is skipped: no file is read, the store and the     *)
(* Components are unchanged and the loop is at the next reference.  If it  *)
(* is not, LoadComponentFromFile is invoked with the directory path of the *)
(* parent followed by the file of the reference, and with the storage name *)
(* of the parent.                                                          *)
(***************************************************************************)
C21_ChildLookupAndRecursion ==
    [][ ExaminesChild =>
          IF SplitFile(CurrentChild.File) \in DOMAIN storage
          THEN /\ storage' = storage /\ comps' = comps /\ textures' = textures
               /\ Len(stack') = Len(stack)
               /\ stack'[Len(stack)] = [Top EXCEPT !.i = @ + 1]
               /\ trace' = Append(trace, [ev |-> "skip", key |-> SplitFile(CurrentChild.File)])
          ELSE /\ storage' = storage /\ comps' = comps
               /\ \/ call'.status = "overflow"
                  \/ /\ Len(stack') = Len(stack) + 1
                     /\ stack'[Len(stack')].pc = "file"
                     /\ stack'[Len(stack')].filename = Top.dir \o CurrentChild.File
                     /\ stack'[Len(stack')].storageName = Top.storageName ]_vars

\* a load with a directory path skipped the reference to parts/leg.json, whose
\* key leg.json was in the store, and invoked the loader for another one
C21_Witness ==
    /\ LoadReturned /\ call.args.componentDirPath # Empty
    /\ \E i \in Events("skip") : trace[i].key = "leg.json"
    /\ \E i \in Events("childload") :
          /\ trace[i].path # <<trace[i].key>>
          /\ trace[i].name = LoadName

\* the directory path of the load in progress or last finished
LoadDir ==
    IF call.op = "LoadComponentFromFile"
    THEN SplitDir(call.args.filename) ELSE call.args.componentDirPath

(***************************************************************************)
(* C22: in every load, from the decoding of the JSON on, the Component has *)
(* the directory path the load was given; loadMeshForComponent sets the    *)
(* Parent of every mesh, with and without a bin file, before it resolves   *)
(* the path of the bin file, and the Parent of every mesh is set when the  *)
(* texture requests start, so every bin path and texture path is resolved  *)
(* through the Component and its directory path.                           *)
(***************************************************************************)
C22_DirAndParentSetBeforePaths ==
    /\ \A k \in DOMAIN stack :
          LET f == stack[k]
          IN  f.pc \in {"meshes", "textures", "store", "children"} =>
                /\ comps[f.comp].componentDirPath = f.dir
                /\ \A m \in 1..Len(comps[f.comp].Meshes) :
                      (f.pc # "meshes" \/ m < f.i) => comps[f.comp].Meshes[m].Parent = f.comp
    /\ Len(stack) = 1 /\ Top.pc # "file" => Top.dir = LoadDir
    /\ LoadReturned =>
          /\ \A i \in Events("readbin") :
                trace[i].path = LoadDir \o BinFileOfMesh(trace[i].mesh)
          /\ call.ret # NoComp =>
                /\ comps[call.ret].componentDirPath = LoadDir \/ Events("unmarshal") = {}
                /\ Events("unmarshal") # {} =>
                      \A m \in 1..Len(comps[call.ret].Meshes) :
                          comps[call.ret].Meshes[m].Parent = call.ret

\* the texture requests start for a Component with a directory path and a
\* mesh without bin file
C22_Witness ==
    /\ stack # <<>> /\ Top.pc = "textures"
    /\ Top.dir # Empty
    /\ \E m \in 1..Len(comps[Top.comp].Meshes) :
          /\ comps[Top.comp].Meshes[m].entry.BinFile = Empty
          /\ comps[Top.comp].Meshes[m].Parent = Top.comp

\* the JSON document the load decoded
LoadedJson ==
    IF call.op = "LoadComponentFromFile"
    THEN FileSystem[call.args.filename] ELSE call.args.jsonBytes

\* the texture requests the entry e of the mesh with index m asks for: one
\* for each texture of the list and one for each of the three named paths
\* that is not empty
NamedRequest(m, path) ==
    IF path = Empty THEN <<>>
    ELSE << [mesh |-> m, key |-> path, path |-> LoadDir \o path, named |-> TRUE] >>
RequestsOfEntry(e, m) ==
    [i \in 1..Len(e.Textures) |->
        [mesh |-> m, key |-> e.Textures[i], path |-> Empty, named |-> FALSE]]
    \o NamedRequest(m, e.DiffuseTexture)
    \o NamedRequest(m, e.NormalsTexture)
    \o NamedRequest(m, e.SpecularTexture)
\* those of the first n entries, in mesh order
RECURSIVE RequestsOfEntries(_, _)
RequestsOfEntries(entries, n) ==
    IF n = 0 THEN <<>>
    ELSE RequestsOfEntries(entries, n - 1) \o RequestsOfEntry(entries[n], n - 1)

\* the texture requests of the trace, in order
TextureEvents == SelectSeq(trace, LAMBDA e : e.ev = "texture")

(***************************************************************************)
(* C23: a load that succeeds makes, mesh after mesh in the order of the    *)
(* meshes, one texture request for each entry of the texture list of the   *)
(* mesh, then one each for its diffuse, normals and specular texture when  *)
(* the path is not empty, and no other.  The key of a request is the path  *)
(* as the component has it, and the file of a diffuse, normals or specular *)
(* request is the directory path of the component followed by that path.   *)
(***************************************************************************)
C23_TextureRequestsPerMesh ==
    (OwnPartsValid /\ call.err = Nil /\ Events("store") # {}) =>
        LET expected == RequestsOfEntries(LoadedJson.Meshes, Len(LoadedJson.Meshes))
        IN  /\ Len(TextureEvents) = Len(expected)
            /\ \A j \in 1..Len(expected) :
                  /\ TextureEvents[j].mesh = expected[j].mesh
                  /\ TextureEvents[j].key = expected[j].key
                  /\ expected[j].named => TextureEvents[j].path = expected[j].path

\* a load of a Component with two meshes succeeded: the first has only a
\* specular texture, the second a texture list, and each got its requests
C23_Witness ==
    /\ OwnPartsValid /\ call.err = Nil
    /\ Len(LoadedJson.Meshes) = 2
    /\ LoadedJson.Meshes[1].DiffuseTexture = Empty
    /\ Len(LoadedJson.Meshes[2].Textures) = 2
    /\ \E i, j \in Events("texture") : i < j /\ trace[i].mesh = 0 /\ trace[j].mesh = 1

(***************************************************************************)
(* C24: GetRenderableInstance returns for every Component and every store  *)
(* that AddComponent and the loads can build, also when the child          *)
(* references go in a cycle through the store: the recursion never goes    *)
(* past the stack.                                                         *)
(***************************************************************************)
C24_CloneTerminates ==
    ~(call.op = "GetRenderableInstance" /\ call.status = "overflow")

(***************************************************************************)
(* C25: a load that returns an error has made no texture request, and the  *)
(* texture cache is as it was when the load was called.  At every moment   *)
(* of a load, texture requests have been made only if every mesh binary    *)
(* of the Component was read and decoded without error.                    *)
(***************************************************************************)
C25_FailedLoadLeavesTextures ==
    /\ (LoadReturned /\ call.err # Nil) =>
          /\ Events("texture") = {}
          /\ textures = call.textures
    /\ (call.op \in {"LoadComponentFromFile", "LoadComponentFromBytes"}
            /\ Events("texture") # {}) =>
          /\ MeshFailures = {}
          /\ \A k \in DOMAIN stack : stack[k].comp # NoComp => MeshesDecoded(stack[k].comp)

\* a load failed at its second mesh, after the first was decoded, with
\* textures in the cache
C25_Witness ==
    /\ LoadReturned /\ call.err # Nil
    /\ call.textures # <<>>
    /\ \E i \in MeshFailures : trace[i].mesh = 1
    /\ \E i \in Events("decodemesh") : trace[i].mesh = 0 /\ trace[i].err = Nil
    /\ RequestsOfEntries(LoadedJson.Meshes, 1) # <<>>

====
